---- MODULE Spec2Model ----
(***************************************************************************)
(* School Network Monitor: the Monitor Cycle (server side, design of       *)
(* spec.md 4.2/4.3/5 and the sketch in the architecture guide), the push   *)
(* client (WebsocketService) with the device list it feeds, and the        *)
(* paginated device listing.                                               *)
(***************************************************************************)
EXTENDS Integers, Sequences, FiniteSets, TLC

\* ------------------------------------------------------------------------
\* Bounds
\* ------------------------------------------------------------------------
MaxEvents == 3        \* no new cycle is triggered once this many Events exist
MaxConcurrent == 1    \* probes in flight at once (the documented tuning uses 10)
MaxApiOps == 2        \* requests the REST clients make
MaxPings == 1         \* pings of one device a component asks for
MaxMetricOps == 3     \* requests on cable health metrics
MaxRequests == 2      \* HTTP requests that pass the AuthInterceptor
MaxClicks == 2        \* clicks on "create" in the add-link dialog

\* ------------------------------------------------------------------------
\* Monitor Cycle: registry, probes, events
\* ------------------------------------------------------------------------
Threshold == 3        \* configured consecutive-failure threshold

Devices == {"d1"}
Links == {"l1"}
Unmonitored == {"d9"}                  \* is_monitored = false
Targets == Devices \cup Links          \* the monitored targets
Registry == Targets \cup Unmonitored
TargetOrder == <<"d1", "l1">>         \* order of the sequential persisting pass

VARIABLES
  phase,        \* phase of the run: Idle, FetchingTargets, Probing, Diffing, Persisting
  active,       \* number of Monitor Cycle runs in flight
  reply,        \* answer to the last trigger: none, running, rejected
  status,       \* registry: last-known status of every device and link
  failures,     \* registry: consecutive failed probes of every target
  snapshot,     \* targets fetched by the run
  inflight,     \* targets whose probe is in flight
  result,       \* probe result of the run per target: none, ok, fail
  changes,      \* targets whose status the diff found changed
  events,       \* the Event table, in creation order
  published,    \* messages published on the fan-out channel, in order
  summary,      \* counters reported by the last completed run
  recent        \* history: the last Threshold probe results of every target

cycleVars == <<phase, active, reply, status, failures, snapshot, inflight,
               result, changes, events, published, summary, recent>>

\* ------------------------------------------------------------------------
\* Push client (WebsocketService), fan-out channel, device list
\* ------------------------------------------------------------------------
MaxReconnectAttempts == 2   \* environment.websocket.maxReconnectAttempts (10)
MaxUserOps == 2             \* calls of connect(), disconnect(), reconnectManually()
MaxMsgs == 2                \* messages published on the fan-out channel
AutoUserOps == 1            \* calls of the application while reconnection is followed to its end
PushLosses == 2             \* connections the network fails while messages flow

MaxLosses == MaxReconnectAttempts + 1     \* connections the network fails
NumSockets == 1 + MaxLosses + 2 * MaxUserOps
Sockets == 1..NumSockets

VARIABLES
  sock,               \* every WebSocketSubject created: none, connecting,
                      \* completing, open, closing, closed
  socketRef,          \* this.socket$: the socket referred to, 0 for null
  inbox,              \* messages in flight to each socket
  emitted,            \* connectionStatus$: what the last emitting handler emitted
  reconnectAttempts,
  isManualDisconnect,
  heartbeatTimer,     \* TRUE while the heartbeat interval is set
  reconnectTimers,    \* pending setTimeout callbacks of reconnect()
  manualTimers,       \* pending setTimeout callbacks of reconnectManually()
  srvStatus,          \* registry status as the server holds it
  nmsgs,              \* messages published so far
  publishedTo,        \* history: the connections open when message i was published
  received,           \* what messagesSubject$ has emitted: <<socket, message id>>
  devices,            \* DevicesComponent.devices: status shown per loaded device
  load,               \* the GET /devices request of loadDevices()
  opsLeft,            \* calls the application may still make
  lossesLeft,         \* connections the network may still fail
  userDisconnected,   \* history: the last call of the application was disconnect()
  gaveUp,             \* history: reconnect() hit the maximum and nothing reset it
  lastTimer,          \* history: what the reconnect() timer did since one was last set
  delays,             \* history: the delays of the timers reconnect() has set
                      \* since reconnectAttempts was last reset
  ping                \* the socket buffering a heartbeat PING sent before it
                      \* opened (0 for none)

wsVars == <<sock, socketRef, inbox, emitted, reconnectAttempts,
            isManualDisconnect, heartbeatTimer, reconnectTimers, manualTimers,
            srvStatus, nmsgs, publishedTo, received, devices, load, opsLeft,
            lossesLeft, userDisconnected, gaveUp, lastTimer, delays, ping>>

VARIABLES
  totalItems,   \* number of devices the server holds, in a fixed order 1..N
  request,      \* the GET /devices request: idle, sent with its HttpParams, done
  body          \* the device list of the response, as ids

pageVars == <<totalItems, request, body>>

VARIABLES
  stream,       \* messages still to arrive on the socket
  messages,     \* what messages$ has emitted
  observed      \* per typed helper, what its subscriber has been handed

filterVars == <<stream, messages, observed>>

\* the typed helpers and the type each passes to getMessagesByType
helperType ==
  [getDeviceStatusUpdates |-> "DEVICE_STATUS",
   getLinkStatusUpdates |-> "LINK_STATUS",
   getPortStatusUpdates |-> "PORT_STATUS",
   getEventNotifications |-> "EVENT_NOTIFICATION"]

FilterIdle ==
  /\ stream = <<>>
  /\ messages = <<>>
  /\ observed = [h \in DOMAIN helperType |-> <<>>]

VARIABLES
  location,     \* registry: the location of every device
  created,      \* devices created through POST /devices
  meta,         \* acknowledgment and resolution fields of the Events, by position
  metrics,      \* the CableHealthMetric records
  metricSeq,    \* metric records created so far
  call,         \* the ping request of the client: idle, answered with its response
  toasts,       \* the notifications shown, in order
  failure,      \* a failed HTTP response on its way to the component
  apiLeft       \* requests the clients may still make

\* positions of the Event table, and the fields of an Event nobody has
\* acknowledged or resolved
EventIds == 1..(MaxEvents + Cardinality(Targets))
Unacked == [acknowledged |-> FALSE, acknowledged_by |-> "null",
            resolved |-> FALSE, resolved_by |-> "null"]

restVars == <<location, created, meta, metrics, metricSeq, call, toasts,
              failure, apiLeft>>

\* the REST interface untouched by the other models
RestIdle ==
  /\ location = [d \in Devices |-> "Server Room A"]
  /\ created = {}
  /\ meta = [i \in EventIds |-> Unacked]
  /\ metrics = {}
  /\ metricSeq = 0
  /\ call = [stage |-> "idle"]
  /\ toasts = <<>>
  /\ failure = [stage |-> "none"]
  /\ apiLeft = 0

VARIABLES
  token,        \* localStorage: the value stored under access_token ("null": none)
  route,        \* the route the router last navigated to
  reqs          \* the HTTP requests: unsent, sent with their header, done

authVars == <<token, route, reqs>>

Requests == 1..MaxRequests

\* no request has passed the AuthInterceptor
AuthIdle ==
  /\ token = "null"
  /\ route = "/dashboard"
  /\ reqs = [i \in Requests |-> [stage |-> "unsent", header |-> "none",
                                 status |-> 0, outcome |-> "none"]]

VARIABLES
  newLink,      \* LinksComponent: the form of the add-link dialog
  showAddModal, \* LinksComponent: the dialog is open
  links,        \* LinksComponent: the links displayed
  srvLinks,     \* server: the links stored
  linkCalls,    \* requests of LinksComponent in flight, in the order issued
  linkToasts,   \* notifications LinksComponent has shown
  clicks        \* history: calls of createLink()

linkVars == <<newLink, showAddModal, links, srvLinks, linkCalls, linkToasts, clicks>>

\* LinksComponent before ngOnInit
LinkIdle ==
  /\ newLink = [source_device_id |-> "", target_device_id |-> ""]
  /\ showAddModal = FALSE
  /\ links = {}
  /\ srvLinks = {}
  /\ linkCalls = <<>>
  /\ linkToasts = <<>>
  /\ clicks = 0

VARIABLES
  component,       \* the list component: "devices" or "events"
  items,           \* server: the status (severity) of each item, by position
  currentPage,     \* currentPage
  selectedStatus,  \* selectedStatus (selectedSeverity): "" is no filter
  loaded,          \* this.devices (this.events): the items of the last response
  filteredDevices, \* DevicesComponent.filteredDevices
  totalDevices,    \* totalDevices (totalEvents)
  totalPages,      \* totalPages
  isLoading,       \* isLoading
  listReqs,        \* list requests outstanding, in the order issued
  issued,          \* history: list requests issued so far
  shownReq,        \* history: the request whose response is displayed (0: none)
  errored,         \* history: the requests that failed
  listToasts,      \* notifications shown by the error handler
  listOps,         \* handler calls left
  pushesLeft,      \* push messages left
  lastOp           \* history: the handler called last

listVars == <<component, items, currentPage, selectedStatus, loaded,
              filteredDevices, totalDevices, totalPages, isLoading, listReqs,
              issued, shownReq, errored, listToasts, listOps, pushesLeft,
              lastOp>>

\* the list components before ngOnInit
ListIdle ==
  /\ component = "devices"
  /\ items = <<>>
  /\ currentPage = 1
  /\ selectedStatus = ""
  /\ loaded = <<>>
  /\ filteredDevices = <<>>
  /\ totalDevices = 0
  /\ totalPages = 0
  /\ isLoading = FALSE
  /\ listReqs = <<>>
  /\ issued = 0
  /\ shownReq = 0
  /\ errored = {}
  /\ listToasts = 0
  /\ listOps = 0
  /\ pushesLeft = 0
  /\ lastOp = "none"

\* the listing untouched by the other models
PageIdle ==
  /\ totalItems = 0
  /\ request = [state |-> "idle"]
  /\ body = <<>>

\* the push client and the server it talks to, untouched by the Monitor Cycle model
WsIdle ==
  /\ sock = [s \in Sockets |-> "none"]
  /\ socketRef = 0
  /\ inbox = [s \in Sockets |-> <<>>]
  /\ emitted = <<>>
  /\ reconnectAttempts = 0
  /\ isManualDisconnect = FALSE
  /\ heartbeatTimer = FALSE
  /\ reconnectTimers = 0
  /\ manualTimers = 0
  /\ srvStatus = [t \in Targets |-> "UP"]
  /\ nmsgs = 0
  /\ publishedTo = <<>>
  /\ received = <<>>
  /\ devices = [d \in Devices |-> "absent"]
  /\ load = [state |-> "idle"]
  /\ opsLeft = 0
  /\ lossesLeft = 0
  /\ userDisconnected = FALSE
  /\ gaveUp = FALSE
  /\ lastTimer = "none"
  /\ delays = <<>>
  /\ ping = 0


Min(a, b) == IF a < b THEN a ELSE b
Max(a, b) == IF a > b THEN a ELSE b

IsDevice(t) == t \in Devices \cup Unmonitored

\* Event type of a transition of target t to status s.
EventTypeFor(t, s) ==
  IF IsDevice(t)
    THEN (IF s = "DOWN" THEN "DEVICE_DOWN" ELSE "DEVICE_UP")
    ELSE (IF s = "DOWN" THEN "LINK_DOWN" ELSE "LINK_UP")

\* Consecutive-failure count after this run's probe of t.
NewFailuresNoReset(t) ==
  IF result[t] = "fail" THEN Min(failures[t] + 1, Threshold) ELSE failures[t]

NewFailures(t) ==
  CASE result[t] = "ok" -> 0
    [] result[t] = "fail" -> Min(failures[t] + 1, Threshold)
    [] OTHER -> failures[t]

\* Status of t after this run: DOWN once the threshold is met, UP on the
\* first successful probe, unchanged otherwise.
NewStatusNoDebounce(t) ==
  CASE result[t] = "ok" -> "UP"
    [] result[t] = "fail" -> "DOWN"
    [] OTHER -> status[t]

NewStatus(t) ==
  CASE result[t] = "ok" -> "UP"
    [] result[t] = "fail" ->
         IF NewFailures(t) >= Threshold THEN "DOWN" ELSE status[t]
    [] OTHER -> status[t]

\* "if device.status changes": the targets the diff reports.
StatusChangesOrDown(t) == NewStatus(t) # status[t] \/ result[t] = "fail"

StatusChanges(t) == NewStatus(t) # status[t]

create_event(t, s) == [type |-> EventTypeFor(t, s), target |-> t]

StatusMessage(t, s) ==
  [type |-> IF IsDevice(t) THEN "DEVICE_STATUS" ELSE "LINK_STATUS",
   target |-> t, status |-> s]

RECURSIVE EventsOf(_, _)
\* Events of the sequential pass over TargetOrder from position i on.
EventsOf(i, chg) ==
  IF i > Len(TargetOrder) THEN <<>>
  ELSE LET t == TargetOrder[i]
       IN (IF t \in chg THEN <<create_event(t, NewStatus(t))>> ELSE <<>>)
          \o EventsOf(i + 1, chg)

RECURSIVE MessagesOf(_, _)
MessagesOf(i, chg) ==
  IF i > Len(TargetOrder) THEN <<>>
  ELSE LET t == TargetOrder[i]
       IN (IF t \in chg THEN <<StatusMessage(t, NewStatus(t))>> ELSE <<>>)
          \o MessagesOf(i + 1, chg)

LastN(s, n) == IF Len(s) <= n THEN s ELSE SubSeq(s, Len(s) - n + 1, Len(s))

InitCycle ==
  /\ phase = "Idle"
  /\ active = 0
  /\ reply = "none"
  /\ status \in {f \in [Registry -> {"UP", "UNKNOWN"}] : \A u \in Unmonitored : f[u] = "UNKNOWN"}
  /\ failures = [t \in Registry |-> 0]
  /\ snapshot = {}
  /\ inflight = {}
  /\ result = [t \in Registry |-> "none"]
  /\ changes = {}
  /\ events = <<>>
  /\ published = <<>>
  /\ summary = [total |-> 0, checked |-> 0]
  /\ recent = [t \in Registry |-> <<>>]
  /\ WsIdle
  /\ PageIdle
  /\ FilterIdle
  /\ RestIdle
  /\ AuthIdle
  /\ LinkIdle
  /\ ListIdle

\* A trigger (periodic timer, POST /monitoring/run-cycle, check-all) that
\* finds no run in flight starts one.
TriggerUnguarded ==
  /\ Len(events) < MaxEvents
  /\ active' = active + 1
  /\ phase' = "FetchingTargets"
  /\ reply' = "running"
  /\ UNCHANGED <<status, failures, snapshot, inflight, result, changes,
                 events, published, summary, recent>>
  /\ UNCHANGED <<wsVars, pageVars, filterVars, restVars, authVars, linkVars, listVars>>

Trigger ==
  /\ Len(events) < MaxEvents
  /\ active = 0
  /\ active' = 1
  /\ phase' = "FetchingTargets"
  /\ reply' = "running"
  /\ UNCHANGED <<status, failures, snapshot, inflight, result, changes,
                 events, published, summary, recent>>
  /\ UNCHANGED <<wsVars, pageVars, filterVars, restVars, authVars, linkVars, listVars>>

\* A trigger that arrives while a run is in flight is rejected.
TriggerWhileRunning ==
  /\ active > 0
  /\ reply # "rejected"
  /\ reply' = "rejected"
  /\ UNCHANGED <<phase, active, status, failures, snapshot, inflight, result,
                 changes, events, published, summary, recent>>
  /\ UNCHANGED <<wsVars, pageVars, filterVars, restVars, authVars, linkVars, listVars>>

\* 1. read the monitored targets from the registry
FetchTargets ==
  /\ phase = "FetchingTargets"
  /\ snapshot' = Targets
  /\ result' = [t \in Registry |-> "none"]
  /\ inflight' = {}
  /\ phase' = "Probing"
  /\ UNCHANGED <<active, reply, status, failures, changes, events, published,
                 summary, recent>>
  /\ UNCHANGED <<wsVars, pageVars, filterVars, restVars, authVars, linkVars, listVars>>

\* a probe is issued while the concurrency cap allows
StartProbeUncapped(t) ==
  /\ phase = "Probing"
  /\ t \in snapshot
  /\ t \notin inflight
  /\ result[t] = "none"
  /\ inflight' = inflight \cup {t}
  /\ UNCHANGED <<phase, active, reply, status, failures, snapshot, result,
                 changes, events, published, summary, recent>>
  /\ UNCHANGED <<wsVars, pageVars, filterVars, restVars, authVars, linkVars, listVars>>

StartProbe(t) ==
  /\ phase = "Probing"
  /\ t \in snapshot
  /\ t \notin inflight
  /\ result[t] = "none"
  /\ Cardinality(inflight) < MaxConcurrent
  /\ inflight' = inflight \cup {t}
  /\ UNCHANGED <<phase, active, reply, status, failures, snapshot, result,
                 changes, events, published, summary, recent>>
  /\ UNCHANGED <<wsVars, pageVars, filterVars, restVars, authVars, linkVars, listVars>>

\* Probe outcome: reachable, or an error class; every error class, the
\* timeout included, is a failed probe.
ProbeOutcomes == {"reachable", "timeout", "unreachable"}
Reachable(o) == IF o = "reachable" THEN "ok" ELSE "fail"

\* a failed probe that ends the probing phase for the targets still waiting
ProbeDoneAborting(t, o) ==
  /\ phase = "Probing"
  /\ t \in inflight
  /\ result' = [result EXCEPT ![t] = Reachable(o)]
  /\ inflight' = IF o = "reachable" THEN inflight \ {t} ELSE {}
  /\ phase' = IF o = "reachable" THEN phase ELSE "Diffing"
  /\ UNCHANGED <<active, reply, status, failures, snapshot, changes, events,
                 published, summary, recent>>
  /\ UNCHANGED <<wsVars, pageVars, filterVars, restVars, authVars, linkVars, listVars>>

ProbeDone(t, o) ==
  /\ phase = "Probing"
  /\ t \in inflight
  /\ result' = [result EXCEPT ![t] = Reachable(o)]
  /\ inflight' = inflight \ {t}
  /\ UNCHANGED <<phase, active, reply, status, failures, snapshot, changes,
                 events, published, summary, recent>>
  /\ UNCHANGED <<wsVars, pageVars, filterVars, restVars, authVars, linkVars, listVars>>

\* all probes of the run have a result: compare new against prior status
DiffEarly ==
  /\ phase = "Probing"
  /\ changes' = {t \in snapshot : StatusChanges(t)}
  /\ phase' = "Diffing"
  /\ UNCHANGED <<active, reply, status, failures, snapshot, inflight, result,
                 events, published, summary, recent>>
  /\ UNCHANGED <<wsVars, pageVars, filterVars, restVars, authVars, linkVars, listVars>>

Diff ==
  /\ phase = "Probing"
  /\ inflight = {}
  /\ \A t \in snapshot : result[t] # "none"
  /\ changes' = {t \in snapshot : StatusChanges(t)}
  /\ phase' = "Diffing"
  /\ UNCHANGED <<active, reply, status, failures, snapshot, inflight, result,
                 events, published, summary, recent>>
  /\ UNCHANGED <<wsVars, pageVars, filterVars, restVars, authVars, linkVars, listVars>>

BeginPersist ==
  /\ phase = "Diffing"
  /\ phase' = "Persisting"
  /\ UNCHANGED <<active, reply, status, failures, snapshot, inflight, result,
                 changes, events, published, summary, recent>>
  /\ UNCHANGED <<wsVars, pageVars, filterVars, restVars, authVars, linkVars, listVars>>

\* write status and failure counts, append one Event and publish one message
\* per change, report the counters, return to Idle
\* Persisting that records a recurrence on the latest Event instead of
\* leaving it as created.
PersistOverwriting ==
  /\ phase = "Persisting"
  /\ status' = [t \in Registry |-> IF t \in snapshot THEN NewStatus(t) ELSE status[t]]
  /\ failures' = [t \in Registry |-> IF t \in snapshot THEN NewFailures(t) ELSE failures[t]]
  /\ events' = LET new == EventsOf(1, changes)
                IN IF events # <<>> /\ new # <<>>
                     THEN [events EXCEPT ![Len(events)] = new[1]] \o Tail(new)
                     ELSE events \o new
  /\ published' = published \o MessagesOf(1, changes)
  /\ recent' = [t \in Registry |->
                  IF t \in snapshot /\ result[t] # "none"
                    THEN LastN(Append(recent[t], result[t]), Threshold)
                    ELSE recent[t]]
  /\ summary' = [total |-> Cardinality(snapshot),
                 checked |-> Cardinality({t \in snapshot : result[t] # "none"})]
  /\ phase' = "Idle"
  /\ active' = active - 1
  /\ snapshot' = {}
  /\ changes' = {}
  /\ result' = [t \in Registry |-> "none"]
  /\ UNCHANGED <<reply, inflight>>
  /\ UNCHANGED <<wsVars, pageVars, filterVars, restVars, authVars, linkVars, listVars>>

Persist ==
  /\ phase = "Persisting"
  /\ status' = [t \in Registry |-> IF t \in snapshot THEN NewStatus(t) ELSE status[t]]
  /\ failures' = [t \in Registry |-> IF t \in snapshot THEN NewFailures(t) ELSE failures[t]]
  /\ events' = events \o EventsOf(1, changes)
  /\ published' = published \o MessagesOf(1, changes)
  /\ recent' = [t \in Registry |->
                  IF t \in snapshot /\ result[t] # "none"
                    THEN LastN(Append(recent[t], result[t]), Threshold)
                    ELSE recent[t]]
  /\ summary' = [total |-> Cardinality(snapshot),
                 checked |-> Cardinality({t \in snapshot : result[t] # "none"})]
  /\ phase' = "Idle"
  /\ active' = active - 1
  /\ snapshot' = {}
  /\ changes' = {}
  /\ result' = [t \in Registry |-> "none"]
  /\ UNCHANGED <<reply, inflight>>
  /\ UNCHANGED <<wsVars, pageVars, filterVars, restVars, authVars, linkVars, listVars>>

Next ==
  \/ Trigger
  \/ TriggerWhileRunning
  \/ FetchTargets
  \/ \E t \in Targets : StartProbe(t)
  \/ \E t \in Targets, o \in ProbeOutcomes : ProbeDone(t, o)
  \/ Diff
  \/ BeginPersist
  \/ Persist

vars == <<cycleVars, wsVars, pageVars, filterVars, restVars, authVars, linkVars, listVars>>

Init == InitCycle

Spec == Init /\ [][Next]_vars

\* A run that has started is carried through: the targets are fetched,
\* probes are issued while the cap allows, every probe ends (at the latest
\* by its timeout), and the sequential phases run. Triggers are not forced.
FairSpec ==
  /\ Spec
  /\ WF_vars(FetchTargets)
  /\ WF_vars(\E t \in Targets : StartProbe(t))
  /\ WF_vars(\E t \in Targets, o \in ProbeOutcomes : ProbeDone(t, o))
  /\ WF_vars(Diff)
  /\ WF_vars(BeginPersist)
  /\ WF_vars(Persist)

\* ------------------------------------------------------------------------
\* Properties of the Monitor Cycle
\* ------------------------------------------------------------------------
EventsOfTarget(evs, t) == SelectSeq(evs, LAMBDA e : e.target = t)

RECURSIVE TrailingFails(_)
\* number of consecutive failed probes at the end of a probe history
TrailingFails(h) ==
  IF h = <<>> \/ h[Len(h)] # "fail" THEN 0
  ELSE 1 + TrailingFails(SubSeq(h, 1, Len(h) - 1))

\* C1: every step creates, for every device and link, exactly one Event if
\* the step changes its status and no Event if it does not; so the Events of
\* a target always count its status transitions.
C1_OneEventPerTransition ==
  [][\A t \in Registry :
       Len(EventsOfTarget(events', t)) - Len(EventsOfTarget(events, t))
         = IF status'[t] # status[t] THEN 1 ELSE 0]_vars

\* a target went through two transitions and has two Events, while another
\* was probed Threshold times with its status unchanged and has none
C1_Witness ==
  /\ \E t \in Targets : Len(EventsOfTarget(events, t)) = 2
  /\ \E u \in Targets : /\ Len(recent[u]) = Threshold
                        /\ Len(EventsOfTarget(events, u)) = 0

\* C2: at most one Monitor Cycle run is in flight at any time.
C2_AtMostOneActiveCycle == active <= 1

\* a trigger arrived while a run was probing and was rejected
C2_Witness == active = 1 /\ reply = "rejected" /\ phase = "Probing"

C6_ProbeFailureIsolated ==
  /\ phase \in {"Diffing", "Persisting"}
       => \A t \in snapshot : result[t] # "none"
  /\ summary.checked = summary.total

\* a run completed in which one target failed its probe and another did not
C6_Witness ==
  /\ phase = "Idle"
  /\ summary.checked = Cardinality(Targets)
  /\ \E t, u \in Targets :
       /\ recent[t] # <<>> /\ recent[t][Len(recent[t])] = "fail"
       /\ recent[u] # <<>> /\ recent[u][Len(recent[u])] = "ok"

\* ------------------------------------------------------------------------
\* WebsocketService
\* ------------------------------------------------------------------------
\* the Monitor Cycle at rest, untouched by the push client model
\* C17: the probes in flight never exceed the concurrency cap.
C17_ProbesCapped == Cardinality(inflight) <= MaxConcurrent

\* the cap is reached while another target of the run still waits
C17_Witness ==
  /\ phase = "Probing"
  /\ Cardinality(inflight) = MaxConcurrent
  /\ \E t \in snapshot \ inflight : result[t] = "none"

PhaseOrder ==
  {<<"Idle", "FetchingTargets">>, <<"FetchingTargets", "Probing">>,
   <<"Probing", "Diffing">>, <<"Diffing", "Persisting">>,
   <<"Persisting", "Idle">>}

\* C18: the phase of a run changes only along Idle, Fetching-Targets,
\* Probing, Diffing, Persisting, Idle; diffing starts only when every
\* fetched target has a probe result and no probe is in flight; and a run
\* that has started eventually is back in Idle.
C18_PhaseOrder ==
  /\ [][/\ phase' # phase => <<phase, phase'>> \in PhaseOrder
        /\ (phase' = "Diffing" /\ phase # "Diffing")
             => /\ inflight = {}
                /\ \A t \in snapshot : result[t] # "none"]_vars
  /\ (phase # "Idle") ~> (phase = "Idle")

\* a run went through all its phases and reported both targets checked
C18_Witness ==
  /\ phase = "Idle"
  /\ active = 0
  /\ summary = [total |-> 2, checked |-> 2]

CycleIdle ==
  /\ phase = "Idle"
  /\ active = 0
  /\ reply = "none"
  /\ status = [t \in Registry |-> "UNKNOWN"]
  /\ failures = [t \in Registry |-> 0]
  /\ snapshot = {}
  /\ inflight = {}
  /\ result = [t \in Registry |-> "none"]
  /\ changes = {}
  /\ events = <<>>
  /\ published = <<>>
  /\ summary = [total |-> 0, checked |-> 0]
  /\ recent = [t \in Registry |-> <<>>]

\* the status last emitted on connectionStatus$
connectionStatus == emitted[Len(emitted)]

\* the lowest socket not yet created
FreeSocket == CHOOSE n \in Sockets : sock[n] = "none" /\ \A m \in 1..(n - 1) : sock[m] # "none"

\* state after the constructor (connect(), startHeartbeat()) and after
\* DevicesComponent.ngOnInit has issued its first loadDevices(); ops and
\* lost are the calls and the connection failures the environment may make
WsStart(ops, lost) ==
  /\ CycleIdle
  /\ PageIdle
  /\ FilterIdle
  /\ RestIdle
  /\ AuthIdle
  /\ LinkIdle
  /\ ListIdle
  /\ sock = [s \in Sockets |-> IF s = 1 THEN "connecting" ELSE "none"]
  /\ socketRef = 1
  /\ inbox = [s \in Sockets |-> <<>>]
  /\ emitted = <<"connecting">>
  /\ reconnectAttempts = 0
  /\ isManualDisconnect = FALSE
  /\ heartbeatTimer = TRUE
  /\ reconnectTimers = 0
  /\ manualTimers = 0
  /\ srvStatus = [t \in Targets |-> "UP"]
  /\ nmsgs = 0
  /\ publishedTo = <<>>
  /\ received = <<>>
  /\ devices = [d \in Devices |-> "absent"]
  /\ load = [state |-> "sent"]
  /\ opsLeft = ops
  /\ lossesLeft = lost
  /\ userDisconnected = FALSE
  /\ gaveUp = FALSE
  /\ lastTimer = "none"
  /\ delays = <<>>
  /\ ping = 0

InitWs == WsStart(MaxUserOps, MaxLosses)

InitAuto == WsStart(AutoUserOps, MaxLosses)

\* no component calls connect(), disconnect() or reconnectManually()
InitPush == WsStart(0, PushLosses)

\* reconnect(): what it does to the attempt count, the timers and the status
reconnectOffByOne(att) ==
  IF att > MaxReconnectAttempts
    THEN [attempts |-> att, timers |-> 0, emits |-> <<"error">>, gaveUp |-> TRUE]
    ELSE [attempts |-> att + 1, timers |-> 1, emits |-> <<"reconnecting">>,
          gaveUp |-> FALSE]

reconnect(att) ==
  IF att >= MaxReconnectAttempts
    THEN [attempts |-> att, timers |-> 0, emits |-> <<"error">>, gaveUp |-> TRUE]
    ELSE [attempts |-> att + 1, timers |-> 1, emits |-> <<"reconnecting">>,
          gaveUp |-> FALSE]

RECURSIVE pow(_, _)
pow(b, k) == IF k = 0 THEN 1 ELSE b * pow(b, k - 1)

reconnectInterval == 5000   \* environment.websocket.reconnectInterval, ms

\* reconnectInterval * Math.pow(1.5, reconnectAttempts - 1), as the exact
\* fraction num / den of milliseconds
delayDoubling(att) == [num |-> reconnectInterval * pow(2, att - 1), den |-> 1]

delay(att) == [num |-> reconnectInterval * pow(3, att - 1), den |-> pow(2, att - 1)]

\* closeObserver.next: DISCONNECTED, socket$ = null, reconnect() unless the
\* disconnect was manual
closeObserverInverted(manual, att) ==
  IF manual
    THEN LET r == reconnect(att)
         IN [r EXCEPT !.emits = <<"disconnected">> \o r.emits]
    ELSE [attempts |-> att, timers |-> 0, emits |-> <<"disconnected">>,
          gaveUp |-> FALSE]

closeObserver(manual, att) ==
  IF ~manual
    THEN LET r == reconnect(att)
         IN [r EXCEPT !.emits = <<"disconnected">> \o r.emits]
    ELSE [attempts |-> att, timers |-> 0, emits |-> <<"disconnected">>,
          gaveUp |-> FALSE]

\* the close event of socket s reaches the service; pre and post are the
\* statuses the catchError of the message pipeline emits before and after it
HandleClose(s, pre, post) ==
  LET r == closeObserver(isManualDisconnect, reconnectAttempts)
  IN /\ sock' = [sock EXCEPT ![s] = "closed"]
     /\ inbox' = [inbox EXCEPT ![s] = <<>>]
     /\ socketRef' = 0
     /\ emitted' = pre \o r.emits \o post
     /\ reconnectAttempts' = r.attempts
     /\ reconnectTimers' = reconnectTimers + r.timers
     /\ gaveUp' = (gaveUp \/ r.gaveUp)
     /\ lastTimer' = IF r.timers > 0 THEN "none" ELSE lastTimer
     /\ delays' = IF r.timers > 0 THEN Append(delays, delay(r.attempts)) ELSE delays
     /\ ping' = IF ping = s THEN 0 ELSE ping

\* connect()
connect ==
  IF socketRef # 0
    THEN UNCHANGED <<sock, socketRef, emitted>>
    ELSE /\ sock' = [sock EXCEPT ![FreeSocket] = "connecting"]
         /\ socketRef' = FreeSocket
         /\ emitted' = <<"connecting">>

\* socket$.complete(): an open socket starts closing, a connecting one
\* closes as soon as it has opened
complete(st) ==
  CASE st = "open" -> "closing"
    [] st = "connecting" -> "completing"
    [] OTHER -> st

\* the application calls connect()
Connect ==
  /\ opsLeft > 0
  /\ connect
  /\ opsLeft' = opsLeft - 1
  /\ userDisconnected' = FALSE
  /\ gaveUp' = FALSE
  /\ UNCHANGED <<inbox, reconnectAttempts, isManualDisconnect, heartbeatTimer,
                 reconnectTimers, manualTimers, srvStatus, nmsgs, publishedTo,
                 received, devices, load, lossesLeft>>
  /\ UNCHANGED lastTimer
  /\ delays' = IF reconnectAttempts' = 0 THEN <<>> ELSE delays
  /\ UNCHANGED ping
  /\ UNCHANGED <<cycleVars, pageVars, filterVars, restVars, authVars, linkVars, listVars>>

\* disconnect(), shared by Disconnect and ReconnectManually
disconnect ==
  /\ heartbeatTimer' = FALSE
  /\ sock' = IF socketRef # 0
               THEN [sock EXCEPT ![socketRef] = complete(sock[socketRef])]
               ELSE sock
  /\ inbox' = IF socketRef # 0 /\ sock[socketRef] = "open"
                THEN [inbox EXCEPT ![socketRef] = <<>>]
                ELSE inbox
  /\ socketRef' = 0
  /\ emitted' = <<"disconnected">>

\* the application calls disconnect()
Disconnect ==
  /\ opsLeft > 0
  /\ disconnect
  /\ isManualDisconnect' = TRUE
  /\ opsLeft' = opsLeft - 1
  /\ userDisconnected' = TRUE
  /\ UNCHANGED <<reconnectAttempts, reconnectTimers, manualTimers, srvStatus,
                 nmsgs, publishedTo, received, devices, load, lossesLeft, gaveUp>>
  /\ UNCHANGED lastTimer
  /\ delays' = IF reconnectAttempts' = 0 THEN <<>> ELSE delays
  /\ UNCHANGED ping
  /\ UNCHANGED <<cycleVars, pageVars, filterVars, restVars, authVars, linkVars, listVars>>

\* the application calls reconnectManually()
ReconnectManually ==
  /\ opsLeft > 0
  /\ disconnect
  /\ isManualDisconnect' = FALSE
  /\ reconnectAttempts' = 0
  /\ manualTimers' = manualTimers + 1
  /\ opsLeft' = opsLeft - 1
  /\ userDisconnected' = FALSE
  /\ gaveUp' = FALSE
  /\ UNCHANGED <<reconnectTimers, srvStatus, nmsgs, publishedTo, received,
                 devices, load, lossesLeft>>
  /\ UNCHANGED lastTimer
  /\ delays' = IF reconnectAttempts' = 0 THEN <<>> ELSE delays
  /\ UNCHANGED ping
  /\ UNCHANGED <<cycleVars, pageVars, filterVars, restVars, authVars, linkVars, listVars>>

\* setTimeout(() => this.connect(), 1000) of reconnectManually() fires
ManualTimerFire ==
  /\ manualTimers > 0
  /\ manualTimers' = manualTimers - 1
  /\ connect
  /\ UNCHANGED <<inbox, reconnectAttempts, isManualDisconnect, heartbeatTimer,
                 reconnectTimers, srvStatus, nmsgs, publishedTo, received,
                 devices, load, opsLeft, lossesLeft, userDisconnected, gaveUp>>
  /\ UNCHANGED lastTimer
  /\ delays' = IF reconnectAttempts' = 0 THEN <<>> ELSE delays
  /\ UNCHANGED ping
  /\ UNCHANGED <<cycleVars, pageVars, filterVars, restVars, authVars, linkVars, listVars>>

\* the timer of reconnect() fires: connect() unless disconnected manually
ReconnectTimerFire ==
  /\ reconnectTimers > 0
  /\ reconnectTimers' = reconnectTimers - 1
  /\ IF ~isManualDisconnect THEN connect
                            ELSE UNCHANGED <<sock, socketRef, emitted>>
  /\ lastTimer' = IF ~isManualDisconnect THEN "connect" ELSE "skipped"
  /\ UNCHANGED delays
  /\ UNCHANGED ping
  /\ UNCHANGED <<inbox, reconnectAttempts, isManualDisconnect, heartbeatTimer,
                 manualTimers, srvStatus, nmsgs, publishedTo, received,
                 devices, load, opsLeft, lossesLeft, userDisconnected, gaveUp>>
  /\ UNCHANGED <<cycleVars, pageVars, filterVars, restVars, authVars, linkVars, listVars>>

\* openObserver.next; a socket completed while connecting closes right after
OnOpen(s) ==
  /\ sock[s] \in {"connecting", "completing"}
  /\ sock' = [sock EXCEPT ![s] = IF sock[s] = "connecting" THEN "open" ELSE "closing"]
  /\ emitted' = <<"connected">>
  /\ reconnectAttempts' = 0
  /\ isManualDisconnect' = FALSE
  /\ gaveUp' = FALSE
  /\ UNCHANGED <<socketRef, inbox, heartbeatTimer, reconnectTimers,
                 manualTimers, srvStatus, nmsgs, publishedTo, received,
                 devices, load, opsLeft, lossesLeft, userDisconnected>>
  /\ ping' = IF ping = s THEN 0 ELSE ping
  /\ UNCHANGED lastTimer
  /\ delays' = IF reconnectAttempts' = 0 THEN <<>> ELSE delays
  /\ UNCHANGED <<cycleVars, pageVars, filterVars, restVars, authVars, linkVars, listVars>>

\* isConnected(): socket$ !== null && !socket$.closed
isConnected == socketRef # 0

\* the heartbeat interval fires: sendPing() if isConnected(); a message sent
\* on a socket that is not open yet waits in the socket's buffer
HeartbeatTick ==
  /\ heartbeatTimer
  /\ ping' = IF isConnected /\ sock[socketRef] # "open" THEN socketRef ELSE ping
  /\ UNCHANGED <<sock, socketRef, inbox, emitted, reconnectAttempts,
                 isManualDisconnect, heartbeatTimer, reconnectTimers,
                 manualTimers, srvStatus, nmsgs, publishedTo, received,
                 devices, load, opsLeft, lossesLeft, userDisconnected, gaveUp,
                 lastTimer, delays>>
  /\ UNCHANGED <<cycleVars, pageVars, filterVars, restVars, authVars, linkVars, listVars>>

\* How the network ends a connection: an error event followed by the close
\* event, a close event that is not clean, or a clean close by the server.
LossKinds == {"error", "unclean", "clean"}

\* the connection of socket s fails or is lost
SocketLost(s, how) ==
  /\ lossesLeft > 0
  /\ sock[s] \in {"connecting", "completing", "open"}
  /\ how = "clean" => sock[s] = "open"
  /\ HandleClose(s, IF how = "error" THEN <<"error">> ELSE <<>>,
                    IF how = "unclean" THEN <<"error">> ELSE <<>>)
  /\ lossesLeft' = lossesLeft - 1
  /\ UNCHANGED <<isManualDisconnect, heartbeatTimer, manualTimers, srvStatus,
                 nmsgs, publishedTo, received, devices, load, opsLeft,
                 userDisconnected>>
  /\ UNCHANGED <<cycleVars, pageVars, filterVars, restVars, authVars, linkVars, listVars>>

\* the close event of a socket the service closed itself
CloseEvent(s, wasClean) ==
  /\ sock[s] = "closing"
  /\ HandleClose(s, <<>>, IF wasClean THEN <<>> ELSE <<"error">>)
  /\ UNCHANGED <<isManualDisconnect, heartbeatTimer, manualTimers, srvStatus,
                 nmsgs, publishedTo, received, devices, load, opsLeft, lossesLeft,
                 userDisconnected>>
  /\ UNCHANGED <<cycleVars, pageVars, filterVars, restVars, authVars, linkVars, listVars>>

\* tap(message => messagesSubject$.next(message))
tapTwice(rcv, s, m) == rcv \o <<[sock |-> s, id |-> m.id], [sock |-> s, id |-> m.id]>>

tap(rcv, s, m) == Append(rcv, [sock |-> s, id |-> m.id])

\* getMessagesByType: the subscriber sees the messages of its type only
getMessagesByTypeAny(type, m) == TRUE

getMessagesByType(type, m) == m.type = type

\* DevicesComponent.subscribeToUpdates: a DEVICE_STATUS update sets the
\* status of the loaded device with that id
subscribeToUpdates(devs, m) ==
  IF getMessagesByType("DEVICE_STATUS", m) /\ m.target \in DOMAIN devs
       /\ devs[m.target] # "absent"
    THEN [devs EXCEPT ![m.target] = m.status]
    ELSE devs

\* a message arrives on socket s
OnMessage(s) ==
  /\ sock[s] = "open"
  /\ inbox[s] # <<>>
  /\ inbox' = [inbox EXCEPT ![s] = Tail(inbox[s])]
  /\ received' = tap(received, s, Head(inbox[s]))
  /\ devices' = subscribeToUpdates(devices, Head(inbox[s]))
  /\ UNCHANGED <<sock, socketRef, emitted, reconnectAttempts,
                 isManualDisconnect, heartbeatTimer, reconnectTimers,
                 manualTimers, srvStatus, nmsgs, publishedTo, load, opsLeft,
                 lossesLeft, userDisconnected, gaveUp, lastTimer>>
  /\ UNCHANGED lastTimer
  /\ delays' = IF reconnectAttempts' = 0 THEN <<>> ELSE delays
  /\ UNCHANGED ping
  /\ UNCHANGED <<cycleVars, pageVars, filterVars, restVars, authVars, linkVars, listVars>>

Flip(st) == IF st = "UP" THEN "DOWN" ELSE "UP"

\* the server detects a transition of t and publishes one message to every
\* connection open at that moment; there is no resend queue
Publish(t) ==
  /\ nmsgs < MaxMsgs
  /\ srvStatus' = [srvStatus EXCEPT ![t] = Flip(srvStatus[t])]
  /\ nmsgs' = nmsgs + 1
  /\ LET m == [id |-> nmsgs + 1] @@ StatusMessage(t, Flip(srvStatus[t]))
     IN inbox' = [s \in Sockets |->
                    IF sock[s] = "open" THEN Append(inbox[s], m) ELSE inbox[s]]
  /\ publishedTo' = Append(publishedTo, {s \in Sockets : sock[s] = "open"})
  /\ UNCHANGED <<sock, socketRef, emitted, reconnectAttempts,
                 isManualDisconnect, heartbeatTimer, reconnectTimers,
                 manualTimers, received, devices, load, opsLeft, lossesLeft,
                 userDisconnected, gaveUp>>
  /\ UNCHANGED lastTimer
  /\ delays' = IF reconnectAttempts' = 0 THEN <<>> ELSE delays
  /\ UNCHANGED ping
  /\ UNCHANGED <<cycleVars, pageVars, filterVars, restVars, authVars, linkVars, listVars>>

\* DevicesComponent.loadDevices(): GET /devices is sent
loadDevices ==
  /\ load.state = "idle"
  /\ load' = [state |-> "sent"]
  /\ UNCHANGED <<sock, socketRef, inbox, emitted, reconnectAttempts,
                 isManualDisconnect, heartbeatTimer, reconnectTimers,
                 manualTimers, srvStatus, nmsgs, publishedTo, received,
                 devices, opsLeft, lossesLeft, userDisconnected, gaveUp>>
  /\ UNCHANGED lastTimer
  /\ delays' = IF reconnectAttempts' = 0 THEN <<>> ELSE delays
  /\ UNCHANGED ping
  /\ UNCHANGED <<cycleVars, pageVars, filterVars, restVars, authVars, linkVars, listVars>>

\* the server answers GET /devices with the registry as it is now
ListDevices ==
  /\ load.state = "sent"
  /\ load' = [state |-> "answered", data |-> [d \in Devices |-> srvStatus[d]]]
  /\ UNCHANGED <<sock, socketRef, inbox, emitted, reconnectAttempts,
                 isManualDisconnect, heartbeatTimer, reconnectTimers,
                 manualTimers, srvStatus, nmsgs, publishedTo, received,
                 devices, opsLeft, lossesLeft, userDisconnected, gaveUp>>
  /\ UNCHANGED lastTimer
  /\ delays' = IF reconnectAttempts' = 0 THEN <<>> ELSE delays
  /\ UNCHANGED ping
  /\ UNCHANGED <<cycleVars, pageVars, filterVars, restVars, authVars, linkVars, listVars>>

\* next: (devices) => this.devices = devices
loadDevicesNext ==
  /\ load.state = "answered"
  /\ devices' = load.data
  /\ load' = [state |-> "idle"]
  /\ UNCHANGED <<sock, socketRef, inbox, emitted, reconnectAttempts,
                 isManualDisconnect, heartbeatTimer, reconnectTimers,
                 manualTimers, srvStatus, nmsgs, publishedTo, received,
                 opsLeft, lossesLeft, userDisconnected, gaveUp>>
  /\ UNCHANGED lastTimer
  /\ delays' = IF reconnectAttempts' = 0 THEN <<>> ELSE delays
  /\ UNCHANGED ping
  /\ UNCHANGED <<cycleVars, pageVars, filterVars, restVars, authVars, linkVars, listVars>>

\* connection management of the service
NextWs ==
  \/ HeartbeatTick
  \/ Connect
  \/ Disconnect
  \/ ReconnectManually
  \/ ManualTimerFire
  \/ ReconnectTimerFire
  \/ \E s \in Sockets : OnOpen(s)
  \/ \E s \in Sockets, how \in LossKinds : SocketLost(s, how)
  \/ \E s \in Sockets, wasClean \in BOOLEAN : CloseEvent(s, wasClean)

SpecWs == InitWs /\ [][NextWs]_vars

\* the service, the fan-out channel and the device list together
NextPush ==
  \/ HeartbeatTick
  \/ ReconnectTimerFire
  \/ \E s \in Sockets : OnOpen(s)
  \/ \E s \in Sockets, how \in LossKinds : SocketLost(s, how)
  \/ \E s \in Sockets : OnMessage(s)
  \/ \E t \in Targets : Publish(t)
  \/ loadDevices
  \/ ListDevices
  \/ loadDevicesNext

SpecPush == InitPush /\ [][NextPush]_vars

\* The timers of the event loop fire, connecting sockets open or fail, close
\* events and messages are dispatched, HTTP requests are answered; calls of
\* the application, connection failures and publications are not forced.
FairWs ==
  /\ WF_vars(ManualTimerFire)
  /\ WF_vars(ReconnectTimerFire)
  /\ WF_vars(\E s \in Sockets : OnOpen(s))
  /\ WF_vars(\E s \in Sockets, wasClean \in BOOLEAN : CloseEvent(s, wasClean))

FairSpecWs == InitAuto /\ [][NextWs]_vars /\ FairWs

FairSpecPush ==
  /\ SpecPush
  /\ FairWs
  /\ WF_vars(\E s \in Sockets : OnMessage(s))
  /\ WF_vars(ListDevices)
  /\ WF_vars(loadDevicesNext)

\* ------------------------------------------------------------------------
\* Properties of the push client
\* ------------------------------------------------------------------------
InSeq(x, sq) == \E i \in 1..Len(sq) : sq[i] = x

NoRepeat(sq) == \A i, j \in 1..Len(sq) : sq[i] = sq[j] => i = j

C8_DisplayCatchesUp ==
  (/\ lossesLeft < PushLosses
   /\ load.state = "idle"
   /\ \E s \in Sockets : sock[s] = "open")
  ~> (\A d \in Devices : devices[d] = srvStatus[d])

C11_ExponentialBackoff ==
  [][/\ reconnectTimers' > reconnectTimers => Len(delays') = Len(delays) + 1
     /\ Len(delays') > Len(delays)
          => LET n == reconnectAttempts'
                 d == delays'[Len(delays')]
             IN /\ n = reconnectAttempts + 1
                /\ n = Len(delays')
                /\ d.num * pow(2, n - 1) = reconnectInterval * pow(3, n - 1) * d.den
                /\ n > 1 => delays[n - 1].num * d.den < d.num * delays[n - 1].den
                /\ reconnectAttempts = 0 => d.num = reconnectInterval * d.den
     /\ \A s \in Sockets :
          (sock[s] # "open" /\ sock'[s] = "open") => reconnectAttempts' = 0
    ]_vars

\* two attempts in a row waited 5000 ms and 7500 ms, the second socket
\* opened, and the attempt after the next loss waits 5000 ms again
C11_Witness ==
  /\ opsLeft = MaxUserOps
  /\ lossesLeft = MaxLosses - 3
  /\ reconnectAttempts = 1
  /\ delays = <<[num |-> 5000, den |-> 1]>>

\* C12: in every state where the service holds an open socket the
\* heartbeat interval is set (so a PING is sent each heartbeatInterval), and
\* it holds after any calls of connect(), disconnect(), reconnectManually()
\* and any automatic reconnects.
C12_HeartbeatKeepsAlive ==
  (socketRef # 0 /\ sock[socketRef] = "open") => heartbeatTimer

\* ------------------------------------------------------------------------
\* Paginated listing: ApiService.getDevices and GET /devices
\* ------------------------------------------------------------------------
MaxItems == 45     \* devices on the server
MaxPage == 3       \* pages asked for
pageSize == 20     \* DevicesComponent.pageSize
DefaultPage == 1          \* server default of page
DefaultPageSize == 50     \* server default of page_size

RECURSIVE toString(_)
\* Number.prototype.toString: the decimal digits of n >= 0
toString(n) == IF n < 10 THEN <<n>> ELSE Append(toString(n \div 10), n % 10)

RECURSIVE parseInt(_)
\* the server reads an integer query parameter
parseInt(ds) ==
  IF Len(ds) = 1 THEN ds[1]
  ELSE 10 * parseInt(SubSeq(ds, 1, Len(ds) - 1)) + ds[Len(ds)]

\* getDevices: every parameter that is not undefined is set, as a string
HttpParamsZeroBased(params) ==
  [k \in {key \in DOMAIN params : params[key].defined} |->
     toString(IF k = "page" THEN params[k].value - 1 ELSE params[k].value)]

HttpParams(params) ==
  [k \in {key \in DOMAIN params : params[key].defined} |->
     toString(params[k].value)]

\* items (page - 1) * page_size + 1 .. page * page_size of the list
Paginate(n, page, size) ==
  IF page < 1 \/ size < 1 THEN <<>>
  ELSE [i \in 1..Max(0, Min(page * size, n) - (page - 1) * size) |->
          (page - 1) * size + i]

\* the state in which a client holds no response yet
InitPage ==
  /\ CycleIdle
  /\ WsIdle
  /\ FilterIdle
  /\ RestIdle
  /\ AuthIdle
  /\ LinkIdle
  /\ ListIdle
  /\ totalItems \in 0..MaxItems
  /\ request = [state |-> "idle"]
  /\ body = <<>>

\* ApiService.getDevices(params): GET /devices with the parameters given
getDevices(params) ==
  /\ request.state # "sent"
  /\ request' = [state |-> "sent", asked |-> params, query |-> HttpParams(params)]
  /\ body' = <<>>
  /\ UNCHANGED totalItems
  /\ UNCHANGED <<cycleVars, wsVars, filterVars, restVars, authVars, linkVars, listVars>>

\* the server answers with the page asked for
ListPage ==
  /\ request.state = "sent"
  /\ LET q == request.query
         page == IF "page" \in DOMAIN q THEN parseInt(q["page"]) ELSE DefaultPage
         size == IF "page_size" \in DOMAIN q THEN parseInt(q["page_size"])
                                              ELSE DefaultPageSize
     IN body' = Paginate(totalItems, page, size)
  /\ request' = [request EXCEPT !.state = "done"]
  /\ UNCHANGED totalItems
  /\ UNCHANGED <<cycleVars, wsVars, filterVars, restVars, authVars, linkVars, listVars>>

\* a parameter of the call: a number, or undefined
undefined == [defined |-> FALSE, value |-> 0]
Number(n) == [defined |-> TRUE, value |-> n]

PageInputs == {Number(n) : n \in 1..MaxPage} \cup {undefined}
SizeInputs == {Number(n) : n \in 1..pageSize} \cup {undefined}

NextPage ==
  \/ \E p \in PageInputs, sz \in SizeInputs :
       getDevices([page |-> p, page_size |-> sz])
  \/ ListPage

SpecPage == InitPage /\ [][NextPage]_vars

\* C5: the response to page p with page_size s over N items is exactly the
\* items (p-1)*s+1 .. min(p*s, N), in order, and holds no item of any other
\* page.
C5_PageSlice ==
  (request.state = "done" /\ request.asked.page.defined
     /\ request.asked.page_size.defined) =>
    LET p == request.asked.page.value
        sz == request.asked.page_size.value
        first == (p - 1) * sz + 1
        last == Min(p * sz, totalItems)
    IN /\ Len(body) = Max(0, last - first + 1)
       /\ \A i \in 1..Len(body) : body[i] = first + i - 1
       /\ \A q \in 1..MaxPage : q # p =>
            \A i \in 1..Len(body) :
              ~((q - 1) * sz + 1 <= body[i] /\ body[i] <= q * sz)

\* page 2 of page_size 20 over 45 devices came back as devices 21-40
C5_Witness ==
  /\ totalItems = 45
  /\ request.state = "done"
  /\ request.asked = [page |-> Number(2), page_size |-> Number(20)]
  /\ body = [i \in 1..20 |-> 20 + i]

\* ------------------------------------------------------------------------
\* Message type filtering: getMessagesByType and the typed helpers
\* ------------------------------------------------------------------------
MaxStream == 3     \* messages arriving

MessageTypes == {"DEVICE_STATUS", "LINK_STATUS", "EVENT_NOTIFICATION", "PONG"}
Payloads == {1, 2}
WebSocketMessage == [type : MessageTypes, data : Payloads]

RECURSIVE SeqsUpTo(_, _)
\* the sequences over S of length at most n
SeqsUpTo(S, n) ==
  IF n = 0 THEN {<<>>}
  ELSE LET shorter == SeqsUpTo(S, n - 1)
       IN shorter \cup {Append(sq, x) : sq \in shorter, x \in S}

InitFilter ==
  /\ CycleIdle
  /\ WsIdle
  /\ PageIdle
  /\ RestIdle
  /\ AuthIdle
  /\ LinkIdle
  /\ ListIdle
  /\ stream \in SeqsUpTo(WebSocketMessage, MaxStream)
  /\ messages = <<>>
  /\ observed = [h \in DOMAIN helperType |-> <<>>]

\* the next handler getMessagesByType subscribes to messages$: the data of
\* a message of the type goes to the observer
observerNext(out, type, m) ==
  IF getMessagesByType(type, m) THEN Append(out, m.data) ELSE out

\* a message arrives: messagesSubject$.next(message) runs every subscriber
messagesNext ==
  /\ stream # <<>>
  /\ stream' = Tail(stream)
  /\ messages' = Append(messages, Head(stream))
  /\ observed' = [h \in DOMAIN helperType |->
                    observerNext(observed[h], helperType[h], Head(stream))]
  /\ UNCHANGED <<cycleVars, wsVars, pageVars, restVars, authVars, linkVars, listVars>>

NextFilter == messagesNext

SpecFilter == InitFilter /\ [][NextFilter]_vars

\* C13: the subscriber of each typed helper has been handed the data of
\* exactly the messages of the helper's type received so far, in arrival
\* order.
C13_TypeFiltering ==
  \A h \in DOMAIN helperType :
    LET mine == SelectSeq(messages, LAMBDA m : m.type = helperType[h])
    IN observed[h] = [i \in 1..Len(mine) |-> mine[i].data]

\* DEVICE_STATUS 1, LINK_STATUS 2, DEVICE_STATUS 2 arrived: the device
\* subscriber holds 1, 2 and the link subscriber holds 2
C13_Witness ==
  /\ messages = <<[type |-> "DEVICE_STATUS", data |-> 1],
                  [type |-> "LINK_STATUS", data |-> 2],
                  [type |-> "DEVICE_STATUS", data |-> 2]>>
  /\ observed["getDeviceStatusUpdates"] = <<1, 2>>
  /\ observed["getLinkStatusUpdates"] = <<2>>
  /\ observed["getEventNotifications"] = <<>>

\* ------------------------------------------------------------------------
\* REST interface: devices, events, cable health (API.md) and its client
\* ------------------------------------------------------------------------
NewDevices == {"n1"}
Users == {"admin"}

\* PUT /devices/{id}: every field of the body is optional.
absent == "absent"
DeviceUpdateBodies ==
  {b \in [location : {absent, "Server Room B"}, status : {absent, "UP", "DOWN"}] :
     b.location # absent \/ b.status # absent}

ApiStart(ops) ==
  /\ phase = "Idle"
  /\ active = 0
  /\ reply = "none"
  /\ status = [t \in Registry |-> IF t \in Unmonitored THEN "UNKNOWN" ELSE "UP"]
  /\ failures = [t \in Registry |-> 0]
  /\ snapshot = {}
  /\ inflight = {}
  /\ result = [t \in Registry |-> "none"]
  /\ changes = {}
  /\ events = <<>>
  /\ published = <<>>
  /\ summary = [total |-> 0, checked |-> 0]
  /\ recent = [t \in Registry |-> <<>>]
  /\ WsIdle
  /\ PageIdle
  /\ FilterIdle
  /\ AuthIdle
  /\ LinkIdle
  /\ ListIdle
  /\ location = [d \in Devices |-> "Server Room A"]
  /\ created = {}
  /\ meta = [i \in EventIds |-> Unacked]
  /\ metrics = {}
  /\ metricSeq = 0
  /\ call = [stage |-> "idle"]
  /\ toasts = <<>>
  /\ failure = [stage |-> "none"]
  /\ apiLeft = ops

InitApi == ApiStart(MaxApiOps)
InitPing == ApiStart(MaxPings)
InitCable == ApiStart(MaxMetricOps)

\* POST /devices: the new device is stored with status UNKNOWN.
CreateDevice(n) ==
  /\ apiLeft > 0
  /\ n \notin created
  /\ created' = created \cup {n}
  /\ apiLeft' = apiLeft - 1
  /\ UNCHANGED <<location, meta, metrics, metricSeq, call, toasts, failure>>
  /\ UNCHANGED <<cycleVars, wsVars, pageVars, filterVars, authVars, linkVars, listVars>>

\* PUT /devices/{id}: the fields present in the body are stored.
UpdateDevice(d, b) ==
  /\ apiLeft > 0
  /\ location' = IF b.location # absent
                   THEN [location EXCEPT ![d] = b.location] ELSE location
  /\ status' = IF b.status # absent
                 THEN [status EXCEPT ![d] = b.status] ELSE status
  /\ apiLeft' = apiLeft - 1
  /\ UNCHANGED <<created, meta, metrics, metricSeq, call, toasts, failure>>
  /\ UNCHANGED <<phase, active, reply, failures, snapshot, inflight, result,
                 changes, events, published, summary, recent>>
  /\ UNCHANGED <<wsVars, pageVars, filterVars, authVars, linkVars, listVars>>

\* Response of POST /devices/{id}/ping for probe outcome o against the
\* stored status st.
PingResponse(d, o, st) ==
  LET alive == (Reachable(o) = "ok")
      new == IF alive THEN "UP" ELSE "DOWN"
  IN [code |-> 200, device_id |-> d, is_alive |-> alive, status |-> new,
      status_changed |-> (new # st)]

\* A ping handler that answers a failed probe with a server error.
PingOneRaising(d, o) ==
  /\ apiLeft > 0
  /\ call.stage = "idle"
  /\ call' = [stage |-> "answered", outcome |-> o,
              response |-> IF Reachable(o) = "ok"
                             THEN PingResponse(d, o, status[d])
                             ELSE [code |-> 500, device_id |-> d,
                                   detail |-> "Internal server error"]]
  /\ status' = status
  /\ apiLeft' = apiLeft - 1
  /\ UNCHANGED <<location, created, meta, metrics, metricSeq, toasts, failure>>
  /\ UNCHANGED <<phase, active, reply, failures, snapshot, inflight, result,
                 changes, events, published, summary, recent>>
  /\ UNCHANGED <<wsVars, pageVars, filterVars, authVars, linkVars, listVars>>

\* POST /devices/{id}/ping: probes the device once, stores the status the
\* probe found and answers 200 with the result, alive or not.
PingOne(d, o) ==
  /\ apiLeft > 0
  /\ call.stage = "idle"
  /\ call' = [stage |-> "answered", outcome |-> o,
              response |-> PingResponse(d, o, status[d])]
  /\ status' = [status EXCEPT ![d] = PingResponse(d, o, status[d]).status]
  /\ apiLeft' = apiLeft - 1
  /\ UNCHANGED <<location, created, meta, metrics, metricSeq, toasts, failure>>
  /\ UNCHANGED <<phase, active, reply, failures, snapshot, inflight, result,
                 changes, events, published, summary, recent>>
  /\ UNCHANGED <<wsVars, pageVars, filterVars, authVars, linkVars, listVars>>

\* DevicesComponent.pingDevice, the subscription: a 2xx response goes to
\* the next handler, which shows "is UP" or "is DOWN"; any other response
\* goes to the error handler.
pingDevice ==
  /\ call.stage = "answered"
  /\ LET r == call.response
     IN toasts' = Append(toasts,
          IF r.code = 200
            THEN (IF r.is_alive
                    THEN [handler |-> "next", type |-> "success",
                          message |-> <<r.device_id, "is UP">>]
                    ELSE [handler |-> "next", type |-> "error",
                          message |-> <<r.device_id, "is DOWN">>])
            ELSE [handler |-> "error", type |-> "error",
                  message |-> <<r.detail>>])
  /\ call' = [stage |-> "idle"]
  /\ UNCHANGED <<location, created, meta, metrics, metricSeq, failure, apiLeft>>
  /\ UNCHANGED <<cycleVars, wsVars, pageVars, filterVars, authVars, linkVars, listVars>>

\* POST /events/{id}/acknowledge with {acknowledged_by, notes}.
acknowledge(m, by) ==
  [m EXCEPT !.acknowledged = TRUE, !.acknowledged_by = by]

\* POST /events/{id}/resolve with {resolved_by, resolution_notes}.
resolve(m, by) ==
  [m EXCEPT !.resolved = TRUE, !.resolved_by = by]

acknowledgeEvent(i, by) ==
  /\ apiLeft > 0
  /\ i \in 1..Len(events)
  /\ meta' = [meta EXCEPT ![i] = acknowledge(meta[i], by)]
  /\ apiLeft' = apiLeft - 1
  /\ UNCHANGED <<location, created, metrics, metricSeq, call, toasts, failure>>
  /\ UNCHANGED <<cycleVars, wsVars, pageVars, filterVars, authVars, linkVars, listVars>>

resolveEvent(i, by) ==
  /\ apiLeft > 0
  /\ i \in 1..Len(events)
  /\ meta' = [meta EXCEPT ![i] = resolve(meta[i], by)]
  /\ apiLeft' = apiLeft - 1
  /\ UNCHANGED <<location, created, metrics, metricSeq, call, toasts, failure>>
  /\ UNCHANGED <<cycleVars, wsVars, pageVars, filterVars, authVars, linkVars, listVars>>

\* POST /events/bulk-acknowledge with {event_ids, acknowledged_by, notes}.
bulkAcknowledgeEvents(ids, by) ==
  /\ apiLeft > 0
  /\ ids # {}
  /\ ids \subseteq 1..Len(events)
  /\ meta' = [i \in EventIds |->
                IF i \in ids THEN acknowledge(meta[i], by) ELSE meta[i]]
  /\ apiLeft' = apiLeft - 1
  /\ UNCHANGED <<location, created, metrics, metricSeq, call, toasts, failure>>
  /\ UNCHANGED <<cycleVars, wsVars, pageVars, filterVars, authVars, linkVars, listVars>>

\* health status of a sample, by its score range
HealthStatus == {"EXCELLENT", "GOOD", "FAIR", "POOR", "CRITICAL"}

\* POST /cable-health: a new record of the link.
createCableHealthMetric(l, h) ==
  /\ apiLeft > 0
  /\ metricSeq' = metricSeq + 1
  /\ metrics' = metrics \cup {[id |-> metricSeq + 1, link_id |-> l, status |-> h]}
  /\ apiLeft' = apiLeft - 1
  /\ UNCHANGED <<location, created, meta, call, toasts, failure>>
  /\ UNCHANGED <<cycleVars, wsVars, pageVars, filterVars, authVars, linkVars, listVars>>

\* DELETE /cable-health/{metric_id}
deleteCableHealthMetric(id) ==
  /\ apiLeft > 0
  /\ \E m \in metrics : m.id = id
  /\ metrics' = {m \in metrics : m.id # id}
  /\ apiLeft' = apiLeft - 1
  /\ UNCHANGED <<location, created, meta, metricSeq, call, toasts, failure>>
  /\ UNCHANGED <<cycleVars, wsVars, pageVars, filterVars, authVars, linkVars, listVars>>

\* Server and clients: the Monitor Cycle with the requests on devices and
\* events.
NextApi ==
  \/ Trigger
  \/ TriggerWhileRunning
  \/ FetchTargets
  \/ \E t \in Targets : StartProbe(t)
  \/ \E t \in Targets, o \in ProbeOutcomes : ProbeDone(t, o)
  \/ Diff
  \/ BeginPersist
  \/ Persist
  \/ \E n \in NewDevices : CreateDevice(n)
  \/ \E d \in Devices, b \in DeviceUpdateBodies : UpdateDevice(d, b)
  \/ \E d \in Devices, o \in ProbeOutcomes : PingOne(d, o)
  \/ pingDevice
  \/ \E i \in EventIds, by \in Users : acknowledgeEvent(i, by)
  \/ \E i \in EventIds, by \in Users : resolveEvent(i, by)

SpecApi == InitApi /\ [][NextApi]_vars

\* The server carries a started run through, as in FairSpec; the clients'
\* requests are not forced.
FairCycle ==
  /\ WF_vars(FetchTargets)
  /\ WF_vars(\E t \in Targets : StartProbe(t))
  /\ WF_vars(\E t \in Targets, o \in ProbeOutcomes : ProbeDone(t, o))
  /\ WF_vars(Diff)
  /\ WF_vars(BeginPersist)
  /\ WF_vars(Persist)

FairSpecApi == SpecApi /\ FairCycle

\* The Monitor Cycle with the requests on events.
NextEvents ==
  \/ Trigger
  \/ TriggerWhileRunning
  \/ FetchTargets
  \/ \E t \in Targets : StartProbe(t)
  \/ \E t \in Targets, o \in ProbeOutcomes : ProbeDone(t, o)
  \/ Diff
  \/ BeginPersist
  \/ Persist
  \/ \E i \in EventIds, by \in Users : acknowledgeEvent(i, by)
  \/ \E i \in EventIds, by \in Users : resolveEvent(i, by)
  \/ \E ids \in SUBSET EventIds, by \in Users : bulkAcknowledgeEvents(ids, by)

SpecEvents == InitApi /\ [][NextEvents]_vars

\* The Monitor Cycle with the ping of one device and the component that
\* asked for it.
NextPing ==
  \/ Trigger
  \/ TriggerWhileRunning
  \/ FetchTargets
  \/ \E t \in Targets : StartProbe(t)
  \/ \E t \in Targets, o \in ProbeOutcomes : ProbeDone(t, o)
  \/ Diff
  \/ BeginPersist
  \/ Persist
  \/ \E d \in Devices, o \in ProbeOutcomes : PingOne(d, o)
  \/ pingDevice

SpecPing == InitPing /\ [][NextPing]_vars

\* The requests on cable health metrics.
NextCable ==
  \/ \E l \in Links, h \in HealthStatus : createCableHealthMetric(l, h)
  \/ \E id \in 1..MaxMetricOps : deleteCableHealthMetric(id)

SpecCable == InitCable /\ [][NextCable]_vars

\* ------------------------------------------------------------------------
\* Properties of the REST interface
\* ------------------------------------------------------------------------

\* C14: a device's stored status changes only in a step of the Monitor
\* Cycle that leaves its Persisting phase; creating or updating a device,
\* pinging one device, and acknowledging or resolving an event leave every
\* stored status as it was.
C14_StatusOnlyByCycle ==
  [][(\E t \in Registry : status'[t] # status[t])
       => (phase = "Persisting" /\ phase' = "Idle")]_vars

C16_MetricsAppendOnly ==
  /\ Cardinality(metrics) = metricSeq
  /\ \A id \in 1..metricSeq : \E m \in metrics : m.id = id

\* C19: a failed probe is a result. The ping of one device answers 200
\* with is_alive false and status DOWN, and the component shows it from
\* its next handler; in a run, the failed probe is recorded as the
\* target's result and the run goes on probing.
C19_ProbeFailureIsResult ==
  /\ [](call.stage = "answered" =>
          /\ call.response.code = 200
          /\ call.response.is_alive = (call.outcome = "reachable")
          /\ call.response.status = (IF call.outcome = "reachable" THEN "UP" ELSE "DOWN"))
  /\ [](\A k \in 1..Len(toasts) : toasts[k].handler = "next")
  /\ [][\A t \in Targets :
          (t \in inflight /\ t \notin inflight') =>
             /\ result'[t] \in {"ok", "fail"}
             /\ phase' = "Probing"
             /\ active' = active
             /\ reply' = reply]_vars

\* the component has shown a device as DOWN after a ping that timed out
C19_Witness ==
  /\ call.stage = "idle"
  /\ \E k \in 1..Len(toasts) :
       toasts[k] = [handler |-> "next", type |-> "error",
                    message |-> <<"d1", "is DOWN">>]
  /\ \E t \in Targets : result[t] = "fail"

\* ------------------------------------------------------------------------
\* Failed requests: AuthInterceptor, ErrorInterceptor, showApiError
\* ------------------------------------------------------------------------
\* A text is a sequence of pieces; a plain string is one piece.
ErrorStatuses == {400, 401, 403, 404, 409, 422, 429, 500, 503}
Details == {<<"Device with identifier 'dev-999' not found">>,
            <<"Device with IP 192.168.1.1 already exists">>}
\* a validation detail is a list of items {loc, msg, type}, kept by its msg
ValidationDetails ==
  {<<"field required">>,
   <<"field required", "value is not a valid integer">>}

\* bodies of an error response: {"detail": "..."}, {"detail": [...]},
\* {"message": "..."} and a body without either
ErrorBodies ==
  {[detail |-> [kind |-> "string", value |-> d], message |-> <<>>] : d \in Details}
  \cup {[detail |-> [kind |-> "array", value |-> v], message |-> <<>>] :
          v \in ValidationDetails}
  \cup {[detail |-> [kind |-> "absent", value |-> <<>>], message |-> <<"Bad Gateway">>],
        [detail |-> [kind |-> "absent", value |-> <<>>], message |-> <<>>]}

NoBody == [detail |-> [kind |-> "absent", value |-> <<>>], message |-> <<>>]

\* the HttpErrorResponse of a failed request, and the Error that replaces it
HttpErrorResponse(st, b) ==
  [status |-> st, error |-> b, message |-> <<"Http failure response for /api/v1/devices">>]
Error(msg) == [status |-> 0, error |-> NoBody, message |-> msg]

RECURSIVE join(_)
\* detail.map(d => d.msg || d).join(', ')
join(v) ==
  IF v = <<>> THEN <<>>
  ELSE IF Len(v) = 1 THEN <<v[1]>>
  ELSE <<v[1], ", ">> \o join(Tail(v))

\* ErrorInterceptor: the message computed from a server-side error
errorMessage(e) ==
  IF e.error.detail.kind = "string" THEN e.error.detail.value
  ELSE IF e.error.detail.kind = "array" THEN join(e.error.detail.value)
  ELSE IF e.error.message # <<>> THEN e.error.message
  ELSE IF e.message # <<>> THEN e.message
  ELSE <<"Server Error">>

\* ErrorInterceptor: the notification shown for specific error codes
interceptorToasts(e) ==
  IF e.status >= 500
    THEN <<[handler |-> "interceptor", type |-> "error", message |-> errorMessage(e)]>>
  ELSE IF e.status = 404
    THEN <<[handler |-> "interceptor", type |-> "warning",
            message |-> <<"Resource not found">>]>>
  ELSE IF e.status = 403
    THEN <<[handler |-> "interceptor", type |-> "warning",
            message |-> <<"You don't have permission to perform this action">>]>>
  ELSE IF e.status = 409 \/ e.status = 400
    THEN <<[handler |-> "interceptor", type |-> "warning", message |-> errorMessage(e)]>>
  ELSE <<>>

\* NotificationService.showApiError: the message of the toast
showApiError(e) ==
  IF e.error.detail.kind = "string" THEN e.error.detail.value
  ELSE IF e.error.detail.kind = "array" THEN join(e.error.detail.value)
  ELSE IF e.message # <<>> THEN e.message
  ELSE <<"An error occurred">>

InitErr ==
  /\ CycleIdle
  /\ WsIdle
  /\ PageIdle
  /\ FilterIdle
  /\ AuthIdle
  /\ LinkIdle
  /\ ListIdle
  /\ location = [d \in Devices |-> "Server Room A"]
  /\ created = {}
  /\ meta = [i \in EventIds |-> Unacked]
  /\ metrics = {}
  /\ metricSeq = 0
  /\ call = [stage |-> "idle"]
  /\ toasts = <<>>
  /\ apiLeft = 0
  /\ failure \in {[stage |-> "response", response |-> HttpErrorResponse(st, b),
                   error |-> HttpErrorResponse(st, b), loggedOut |-> FALSE] :
                    st \in ErrorStatuses, b \in ErrorBodies}

\* AuthInterceptor (inner): on 401 the token is dropped and the application
\* goes to the login page; the error is rethrown as it is.
AuthIntercept ==
  /\ failure.stage = "response"
  /\ failure' = [failure EXCEPT !.stage = "auth",
                                !.loggedOut = (failure.error.status = 401)]
  /\ UNCHANGED <<location, created, meta, metrics, metricSeq, call, toasts, apiLeft>>
  /\ UNCHANGED <<cycleVars, wsVars, pageVars, filterVars, authVars, linkVars, listVars>>

\* ErrorInterceptor (outer): shows its notification and throws a new Error
\* that carries the computed message.
ErrorIntercept ==
  /\ failure.stage = "auth"
  /\ toasts' = toasts \o interceptorToasts(failure.error)
  /\ failure' = [failure EXCEPT !.stage = "thrown",
                                !.error = Error(errorMessage(failure.error))]
  /\ UNCHANGED <<location, created, meta, metrics, metricSeq, call, apiLeft>>
  /\ UNCHANGED <<cycleVars, wsVars, pageVars, filterVars, authVars, linkVars, listVars>>

\* The error handler of the component's subscription: showApiError(error).
subscribeError ==
  /\ failure.stage = "thrown"
  /\ toasts' = Append(toasts, [handler |-> "error", type |-> "error",
                               message |-> showApiError(failure.error)])
  /\ failure' = [failure EXCEPT !.stage = "handled"]
  /\ UNCHANGED <<location, created, meta, metrics, metricSeq, call, apiLeft>>
  /\ UNCHANGED <<cycleVars, wsVars, pageVars, filterVars, authVars, linkVars, listVars>>

NextErr ==
  \/ AuthIntercept
  \/ ErrorIntercept
  \/ subscribeError

SpecErr == InitErr /\ [][NextErr]_vars

\* C20: for a failed request whose response carries a textual detail,
\* whatever its status, the error the component's handler receives carries
\* exactly that detail, every toast shown carries exactly that detail, and
\* once the component has handled the error a toast is shown.
C20_DetailUnmodified ==
  failure.stage \in {"thrown", "handled"} /\ failure.response.error.detail.kind = "string"
    => /\ failure.error.message = failure.response.error.detail.value
       /\ \A k \in 1..Len(toasts) :
            toasts[k].message = failure.response.error.detail.value
       /\ failure.stage = "handled" => Len(toasts) >= 1

\* C29: a failed request produces at most one notification: the
\* ErrorInterceptor and the component's error handler never both show one
\* for the same request.
C29_AtMostOneToast ==
  /\ Len(toasts) <= 1
  /\ ~ (\E j, k \in 1..Len(toasts) :
          toasts[j].handler = "interceptor" /\ toasts[k].handler = "error")

\* ------------------------------------------------------------------------
\* AuthInterceptor: bearer token and 401
\* ------------------------------------------------------------------------
Tokens == {"t1", "t2"}
Routes == {"/dashboard", "/login"}
ResponseStatuses == {200, 401, 404}

InitAuth ==
  /\ CycleIdle
  /\ WsIdle
  /\ PageIdle
  /\ FilterIdle
  /\ RestIdle
  /\ LinkIdle
  /\ ListIdle
  /\ token \in Tokens \cup {"null"}
  /\ route = "/dashboard"
  /\ reqs = [i \in Requests |-> [stage |-> "unsent", header |-> "none",
                                 status |-> 0, outcome |-> "none"]]

\* localStorage.setItem('access_token', t) by the login of the application
StoreToken(t) ==
  /\ token' = t
  /\ UNCHANGED <<route, reqs>>
  /\ UNCHANGED <<cycleVars, wsVars, pageVars, filterVars, restVars, linkVars, listVars>>

\* the user follows a link of the application
Navigate(r) ==
  /\ route' = r
  /\ UNCHANGED <<token, reqs>>
  /\ UNCHANGED <<cycleVars, wsVars, pageVars, filterVars, restVars, linkVars, listVars>>

\* AuthInterceptor.intercept, on the way out: the request is cloned with
\* Authorization: Bearer <token> if a token is in storage
intercept(i) ==
  /\ reqs[i].stage = "unsent"
  /\ reqs' = [reqs EXCEPT ![i] =
               [@ EXCEPT !.stage = "sent",
                         !.header = IF token # "null" THEN token ELSE "none"]]
  /\ UNCHANGED <<token, route>>
  /\ UNCHANGED <<cycleVars, wsVars, pageVars, filterVars, restVars, linkVars, listVars>>

\* A catchError that rethrows and leaves storage and route alone.
catchErrorRethrowOnly(i, st) ==
  /\ reqs[i].stage = "sent"
  /\ reqs' = [reqs EXCEPT ![i] =
               [@ EXCEPT !.stage = "done", !.status = st,
                         !.outcome = IF st = 200 THEN "next" ELSE "error"]]
  /\ UNCHANGED <<token, route>>
  /\ UNCHANGED <<cycleVars, wsVars, pageVars, filterVars, restVars, linkVars, listVars>>

\* The response with status st arrives. AuthInterceptor.catchError: on 401
\* the token is removed and the router navigates to /login; every error is
\* rethrown and reaches the error handler of the caller.
catchError(i, st) ==
  /\ reqs[i].stage = "sent"
  /\ reqs' = [reqs EXCEPT ![i] =
               [@ EXCEPT !.stage = "done", !.status = st,
                         !.outcome = IF st = 200 THEN "next" ELSE "error"]]
  /\ token' = IF st = 401 THEN "null" ELSE token
  /\ route' = IF st = 401 THEN "/login" ELSE route
  /\ UNCHANGED <<cycleVars, wsVars, pageVars, filterVars, restVars, linkVars, listVars>>

NextAuth ==
  \/ \E t \in Tokens : StoreToken(t)
  \/ \E r \in Routes : Navigate(r)
  \/ \E i \in Requests : intercept(i)
  \/ \E i \in Requests, st \in ResponseStatuses : catchError(i, st)

SpecAuth == InitAuth /\ [][NextAuth]_vars

LiveSockets == {s \in Sockets : sock[s] \in {"connecting", "open"}}

\* C23: at most one live WebSocket exists and socket$ refers to it; the
\* close event of an earlier socket neither clears the reference to a newer
\* socket nor leads to a second connection next to it.
C23_OneLiveSocket ==
  /\ Cardinality(LiveSockets) <= 1
  /\ \A s \in LiveSockets : socketRef = s

\* C24: from disconnect() until the application calls connect() or
\* reconnectManually(), the service creates no socket, whether a reconnect
\* timer was pending or the close event of the socket arrives later.
C24_ManualDisconnectHolds ==
  [][(userDisconnected /\ userDisconnected')
       => \A s \in Sockets : sock[s] = "none" => sock'[s] = "none"]_vars

\* getConnectionStatus(): DISCONNECTED without socket$, RECONNECTING while
\* reconnectAttempts > 0, CONNECTED otherwise (socket$.closed stays false)
getConnectionStatus ==
  IF socketRef = 0 THEN "disconnected"
  ELSE IF reconnectAttempts > 0 THEN "reconnecting"
  ELSE "connected"

\* C25: getConnectionStatus() reports the status last emitted on
\* connectionStatus$.
C25_StatusAgrees == getConnectionStatus = connectionStatus

\* ------------------------------------------------------------------------
\* LinksComponent: the add-link dialog
\* ------------------------------------------------------------------------
DeviceIds == {"dev-001", "dev-002"}
Choices == DeviceIds \cup {""}          \* "": nothing selected

RemoveAt(q, k) == SubSeq(q, 1, k - 1) \o SubSeq(q, k + 1, Len(q))

\* resetNewLinkForm()
resetNewLinkForm == [source_device_id |-> "", target_device_id |-> ""]

listCall == [op |-> "list", body |-> resetNewLinkForm]

\* after ngOnInit: loadLinks() is in flight
InitLink ==
  /\ CycleIdle
  /\ WsIdle
  /\ PageIdle
  /\ FilterIdle
  /\ RestIdle
  /\ AuthIdle
  /\ ListIdle
  /\ newLink = resetNewLinkForm
  /\ showAddModal = FALSE
  /\ links = {}
  /\ srvLinks = {}
  /\ linkCalls = <<listCall>>
  /\ linkToasts = <<>>
  /\ clicks = 0

openAddModal ==
  /\ ~showAddModal
  /\ showAddModal' = TRUE
  /\ newLink' = resetNewLinkForm
  /\ UNCHANGED <<links, srvLinks, linkCalls, linkToasts, clicks>>
  /\ UNCHANGED <<cycleVars, wsVars, pageVars, filterVars, restVars, authVars, listVars>>

closeAddModal ==
  /\ showAddModal
  /\ showAddModal' = FALSE
  /\ newLink' = resetNewLinkForm
  /\ UNCHANGED <<links, srvLinks, linkCalls, linkToasts, clicks>>
  /\ UNCHANGED <<cycleVars, wsVars, pageVars, filterVars, restVars, authVars, listVars>>

\* the user selects source and target in the dialog
SelectDevices(a, b) ==
  /\ showAddModal
  /\ newLink' = [source_device_id |-> a, target_device_id |-> b]
  /\ UNCHANGED <<showAddModal, links, srvLinks, linkCalls, linkToasts, clicks>>
  /\ UNCHANGED <<cycleVars, wsVars, pageVars, filterVars, restVars, authVars, listVars>>

\* createLink() without the test that the two devices differ
createLinkUnchecked ==
  /\ showAddModal
  /\ clicks < MaxClicks
  /\ clicks' = clicks + 1
  /\ IF newLink.source_device_id = "" \/ newLink.target_device_id = ""
       THEN /\ linkToasts' = Append(linkToasts,
                 [type |-> "warning",
                  message |-> "Please select both source and target devices"])
            /\ UNCHANGED linkCalls
       ELSE /\ linkCalls' = Append(linkCalls, [op |-> "create", body |-> newLink])
            /\ UNCHANGED linkToasts
  /\ UNCHANGED <<newLink, showAddModal, links, srvLinks>>
  /\ UNCHANGED <<cycleVars, wsVars, pageVars, filterVars, restVars, authVars, listVars>>

\* createLink(): a warning and nothing else unless both devices are
\* selected and differ; otherwise POST /links
createLink ==
  /\ showAddModal
  /\ clicks < MaxClicks
  /\ clicks' = clicks + 1
  /\ IF newLink.source_device_id = "" \/ newLink.target_device_id = ""
       THEN /\ linkToasts' = Append(linkToasts,
                 [type |-> "warning",
                  message |-> "Please select both source and target devices"])
            /\ UNCHANGED linkCalls
       ELSE IF newLink.source_device_id = newLink.target_device_id
       THEN /\ linkToasts' = Append(linkToasts,
                 [type |-> "warning",
                  message |-> "Source and target must be different devices"])
            /\ UNCHANGED linkCalls
       ELSE /\ linkCalls' = Append(linkCalls, [op |-> "create", body |-> newLink])
            /\ UNCHANGED linkToasts
  /\ UNCHANGED <<newLink, showAddModal, links, srvLinks>>
  /\ UNCHANGED <<cycleVars, wsVars, pageVars, filterVars, restVars, authVars, listVars>>

\* POST /links: the server's validation rules
accepts(b) ==
  /\ b.source_device_id # b.target_device_id
  /\ \A l \in srvLinks :
       {l.source_device_id, l.target_device_id}
         # {b.source_device_id, b.target_device_id}

\* the response to the k-th request in flight arrives: the create request's
\* next handler (success toast, closeAddModal(), loadLinks()) or its error
\* handler (showApiError); the list request's next handler
linkResponse(k) ==
  /\ k \in 1..Len(linkCalls)
  /\ LET c == linkCalls[k]
     IN IF c.op = "list"
          THEN /\ links' = srvLinks
               /\ linkCalls' = RemoveAt(linkCalls, k)
               /\ UNCHANGED <<newLink, showAddModal, srvLinks, linkToasts>>
          ELSE IF accepts(c.body)
          THEN /\ srvLinks' = srvLinks \cup {c.body}
               /\ linkToasts' = Append(linkToasts,
                    [type |-> "success", message |-> "Link created successfully"])
               /\ showAddModal' = FALSE
               /\ newLink' = resetNewLinkForm
               /\ linkCalls' = Append(RemoveAt(linkCalls, k), listCall)
               /\ UNCHANGED links
          ELSE /\ linkToasts' = Append(linkToasts,
                    [type |-> "error", message |-> "Link already exists"])
               /\ linkCalls' = RemoveAt(linkCalls, k)
               /\ UNCHANGED <<newLink, showAddModal, links, srvLinks>>
  /\ UNCHANGED clicks
  /\ UNCHANGED <<cycleVars, wsVars, pageVars, filterVars, restVars, authVars, listVars>>

NextLink ==
  \/ openAddModal
  \/ closeAddModal
  \/ \E a \in Choices, b \in Choices : SelectDevices(a, b)
  \/ createLink
  \/ \E k \in 1..MaxClicks + 1 : linkResponse(k)

SpecLink == InitLink /\ [][NextLink]_vars

\* the form createLink() rejects
Rejected(f) ==
  \/ f.source_device_id = ""
  \/ f.target_device_id = ""
  \/ f.source_device_id = f.target_device_id

\* C21: createLink() with the source or the target not selected, or with
\* the same device as both, sends no request, leaves the dialog, its form
\* and the list of links as they are, and shows one warning.
C21_InvalidLinkRejected ==
  [][(clicks' = clicks + 1 /\ Rejected(newLink)) =>
       /\ linkCalls' = linkCalls
       /\ showAddModal' = showAddModal
       /\ newLink' = newLink
       /\ links' = links
       /\ srvLinks' = srvLinks
       /\ Len(linkToasts') = Len(linkToasts) + 1
       /\ linkToasts'[Len(linkToasts')].type = "warning"]_vars

\* both rejections have happened: nothing selected, then the same device
\* twice; the dialog is still open and no create request was sent
C21_Witness ==
  /\ clicks = 2
  /\ showAddModal
  /\ newLink = [source_device_id |-> "dev-001", target_device_id |-> "dev-001"]
  /\ Len(linkToasts) = 2
  /\ linkToasts[1].message = "Please select both source and target devices"
  /\ linkToasts[2].message = "Source and target must be different devices"
  /\ \A k \in 1..Len(linkCalls) : linkCalls[k].op = "list"
  /\ srvLinks = {}

\* ------------------------------------------------------------------------
\* DevicesComponent and EventsComponent: the paginated, filtered list
\* ------------------------------------------------------------------------
MaxListOps == 3    \* calls of the page and filter handlers
MaxPushes == 1     \* push messages delivered to the component

ListComponents == {"devices", "events"}

\* the values of the status filter (DeviceStatus) and of the severity
\* filter (EventSeverity) that the stored items carry
FilterValues(c) ==
  IF c = "devices" THEN {"UP", "DOWN"} ELSE {"CRITICAL", "WARNING"}

\* the items the server stores: MaxItems of them, alternating in status
Stored(c) ==
  [i \in 1..MaxItems |->
     IF c = "devices" THEN (IF i % 2 = 1 THEN "UP" ELSE "DOWN")
                      ELSE (IF i % 2 = 1 THEN "CRITICAL" ELSE "WARNING")]

\* the devices pushed status updates are about: one of page 1, one of page 2
PushIds == {1, pageSize + 1}

\* Math.ceil(a / b)
Ceil(a, b) == (a + b - 1) \div b

\* GET /devices?status=st (GET /events?severity=st): the items that match
Matching(its, st) ==
  LET all == [i \in 1..Len(its) |-> [id |-> i, status |-> its[i]]]
  IN IF st = "" THEN all ELSE SelectSeq(all, LAMBDA d : d.status = st)

\* the response to the list request r: page r.page of the matching items
listResponse(its, r) ==
  LET m == Matching(its, r.status)
      idx == Paginate(Len(m), r.page, pageSize)
  IN [i \in 1..Len(idx) |-> m[idx[i]]]

\* DevicesComponent.calculatePagination and the getter
\* EventsComponent.totalPages, from totalDevices (totalEvents)
calculatePagination(c, total) ==
  IF c = "devices" THEN Ceil(total, pageSize)
  ELSE IF total = 0 THEN 1 ELSE Max(1, Ceil(total, pageSize))

\* DevicesComponent.visiblePages: the page buttons offered
visiblePages ==
  LET start == Max(0, currentPage - 3)
      end == Min(totalPages, currentPage + 2)
  IN {p \in 1..totalPages : start < p /\ p <= end}

\* ngOnInit has called loadDevices() (loadEvents()) once
InitList ==
  /\ CycleIdle
  /\ WsIdle
  /\ PageIdle
  /\ FilterIdle
  /\ RestIdle
  /\ AuthIdle
  /\ LinkIdle
  /\ component \in ListComponents
  /\ items = Stored(component)
  /\ currentPage = 1
  /\ selectedStatus = ""
  /\ loaded = <<>>
  /\ filteredDevices = <<>>
  /\ totalDevices = 0
  /\ totalPages = calculatePagination(component, 0)
  /\ isLoading = TRUE
  /\ listReqs = <<[seq |-> 1, page |-> 1, status |-> ""]>>
  /\ issued = 1
  /\ shownReq = 0
  /\ errored = {}
  /\ listToasts = 0
  /\ listOps = MaxListOps
  /\ pushesLeft = MaxPushes
  /\ lastOp = "ngOnInit"

\* loadDevices() (loadEvents()) up to the subscription: isLoading is set and
\* GET /devices (GET /events) is sent with the page and the filter
sendList(page, st) ==
  /\ isLoading' = TRUE
  /\ issued' = issued + 1
  /\ listReqs' = Append(listReqs, [seq |-> issued + 1, page |-> page, status |-> st])

\* previousPage()
previousPage ==
  /\ lastOp' = "previousPage"
  /\ listOps > 0
  /\ listOps' = listOps - 1
  /\ IF currentPage > 1
       THEN /\ currentPage' = currentPage - 1
            /\ sendList(currentPage - 1, selectedStatus)
       ELSE UNCHANGED <<currentPage, isLoading, issued, listReqs>>
  /\ UNCHANGED <<component, items, selectedStatus, loaded, filteredDevices,
                 totalDevices, totalPages, shownReq, errored, listToasts,
                 pushesLeft>>
  /\ UNCHANGED <<cycleVars, wsVars, pageVars, filterVars, restVars, authVars, linkVars>>

\* nextPage()
nextPage ==
  /\ lastOp' = "nextPage"
  /\ listOps > 0
  /\ listOps' = listOps - 1
  /\ IF currentPage < totalPages
       THEN /\ currentPage' = currentPage + 1
            /\ sendList(currentPage + 1, selectedStatus)
       ELSE UNCHANGED <<currentPage, isLoading, issued, listReqs>>
  /\ UNCHANGED <<component, items, selectedStatus, loaded, filteredDevices,
                 totalDevices, totalPages, shownReq, errored, listToasts,
                 pushesLeft>>
  /\ UNCHANGED <<cycleVars, wsVars, pageVars, filterVars, restVars, authVars, linkVars>>

\* DevicesComponent.goToPage(page)
goToPage(page) ==
  /\ lastOp' = "goToPage"
  /\ component = "devices"
  /\ listOps > 0
  /\ listOps' = listOps - 1
  /\ currentPage' = page
  /\ sendList(page, selectedStatus)
  /\ UNCHANGED <<component, items, selectedStatus, loaded, filteredDevices,
                 totalDevices, totalPages, shownReq, errored, listToasts,
                 pushesLeft>>
  /\ UNCHANGED <<cycleVars, wsVars, pageVars, filterVars, restVars, authVars, linkVars>>

\* the filter select is set to st and calls onFilterChange()
onFilterChange(st) ==
  /\ lastOp' = "onFilterChange"
  /\ listOps > 0
  /\ listOps' = listOps - 1
  /\ selectedStatus' = st
  /\ currentPage' = 1
  /\ sendList(1, st)
  /\ UNCHANGED <<component, items, loaded, filteredDevices, totalDevices,
                 totalPages, shownReq, errored, listToasts, pushesLeft>>
  /\ UNCHANGED <<cycleVars, wsVars, pageVars, filterVars, restVars, authVars, linkVars>>

\* DevicesComponent.clearFilters()
clearFilters ==
  /\ lastOp' = "clearFilters"
  /\ component = "devices"
  /\ listOps > 0
  /\ listOps' = listOps - 1
  /\ selectedStatus' = ""
  /\ currentPage' = 1
  /\ sendList(1, "")
  /\ UNCHANGED <<component, items, loaded, filteredDevices, totalDevices,
                 totalPages, shownReq, errored, listToasts, pushesLeft>>
  /\ UNCHANGED <<cycleVars, wsVars, pageVars, filterVars, restVars, authVars, linkVars>>

\* the Monitor Cycle has stored status st for device id and the
\* DEVICE_STATUS message reaches DevicesComponent.subscribeToUpdates: the
\* loaded device with that id takes the status, applyClientSideFilter()
deviceStatusUpdate(id, st) ==
  /\ lastOp' = "subscribeToUpdates"
  /\ component = "devices"
  /\ pushesLeft > 0
  /\ pushesLeft' = pushesLeft - 1
  /\ items[id] # st
  /\ items' = [items EXCEPT ![id] = st]
  /\ IF \E i \in 1..Len(loaded) : loaded[i].id = id
       THEN /\ loaded' = [i \in 1..Len(loaded) |->
                            IF loaded[i].id = id
                              THEN [loaded[i] EXCEPT !.status = st]
                              ELSE loaded[i]]
            /\ filteredDevices' = loaded'
            /\ totalDevices' = Len(loaded')
            /\ totalPages' = calculatePagination(component, Len(loaded'))
       ELSE UNCHANGED <<loaded, filteredDevices, totalDevices, totalPages>>
  /\ UNCHANGED <<component, currentPage, selectedStatus, isLoading, listReqs,
                 issued, shownReq, errored, listToasts, listOps>>
  /\ UNCHANGED <<cycleVars, wsVars, pageVars, filterVars, restVars, authVars, linkVars>>

\* an Event of severity sev is stored and its notification reaches
\* EventsComponent.subscribeToUpdates: loadEvents()
eventNotification(sev) ==
  /\ lastOp' = "subscribeToUpdates"
  /\ component = "events"
  /\ pushesLeft > 0
  /\ pushesLeft' = pushesLeft - 1
  /\ items' = Append(items, sev)
  /\ sendList(currentPage, selectedStatus)
  /\ UNCHANGED <<component, currentPage, selectedStatus, loaded,
                 filteredDevices, totalDevices, totalPages, shownReq, errored,
                 listToasts, listOps>>
  /\ UNCHANGED <<cycleVars, wsVars, pageVars, filterVars, restVars, authVars, linkVars>>

\* the response to the k-th outstanding request arrives: the next handler
\* of loadDevices() (loadEvents())
loadNext(k) ==
  /\ lastOp' = "next"
  /\ k \in 1..Len(listReqs)
  /\ LET r == listReqs[k]
         resp == listResponse(items, r)
     IN /\ loaded' = resp
        /\ filteredDevices' = IF component = "devices" THEN resp ELSE filteredDevices
        /\ totalDevices' = IF component = "devices" THEN Len(resp)
                           ELSE Max(totalDevices, Len(resp))
        /\ shownReq' = r.seq
  /\ totalPages' = calculatePagination(component, totalDevices')
  /\ isLoading' = FALSE
  /\ listReqs' = RemoveAt(listReqs, k)
  /\ UNCHANGED <<component, items, currentPage, selectedStatus, issued,
                 errored, listToasts, listOps, pushesLeft>>
  /\ UNCHANGED <<cycleVars, wsVars, pageVars, filterVars, restVars, authVars, linkVars>>

\* the k-th outstanding request fails: the error handler of loadDevices()
\* (loadEvents())
loadError(k) ==
  /\ lastOp' = "error"
  /\ k \in 1..Len(listReqs)
  /\ errored' = errored \cup {listReqs[k].seq}
  /\ listToasts' = listToasts + 1
  /\ isLoading' = FALSE
  /\ listReqs' = RemoveAt(listReqs, k)
  /\ UNCHANGED <<component, items, currentPage, selectedStatus, loaded,
                 filteredDevices, totalDevices, totalPages, issued, shownReq,
                 listOps, pushesLeft>>
  /\ UNCHANGED <<cycleVars, wsVars, pageVars, filterVars, restVars, authVars, linkVars>>

NextList ==
  \/ previousPage
  \/ nextPage
  \/ \E page \in 1..MaxPage : goToPage(page)
  \/ \E st \in FilterValues(component) \cup {""} : onFilterChange(st)
  \/ clearFilters
  \/ \E id \in PushIds, st \in FilterValues("devices") : deviceStatusUpdate(id, st)
  \/ \E sev \in FilterValues("events") : eventNotification(sev)
  \/ \E k \in 1..MaxListOps + MaxPushes + 1 : loadNext(k)
  \/ \E k \in 1..MaxListOps + MaxPushes + 1 : loadError(k)

SpecList == InitList /\ [][NextList]_vars

\* every response has arrived and the list displayed is the response to the
\* request issued last
Settled == listReqs = <<>> /\ shownReq = issued

\* C22: with more matching items on the server than pageSize, totalPages
\* is the number of pages of the server's total, ceil(N / pageSize), so
\* that nextPage() on a full page moves to the next page.
C22_AllPagesReachable ==
  LET n == Len(Matching(items, selectedStatus))
  IN (Settled /\ n > pageSize) => totalPages = Ceil(n, pageSize)

\* C26: once every response has arrived, the list displayed is the response
\* to the request issued last (unless that one failed), and isLoading is
\* false only when no request is outstanding.
C26_LatestRequestWins ==
  /\ (listReqs = <<>> /\ issued \notin errored) => shownReq = issued
  /\ ~isLoading => listReqs = <<>>

\* C27: currentPage stays between 1 and max(1, totalPages).
C27_PageInRange ==
  /\ 1 <= currentPage
  /\ currentPage <= Max(1, totalPages)

\* C28: with a status filter selected and its response displayed, every
\* device of filteredDevices has the selected status, push updates included.
C28_FilteredByStatus ==
  (component = "devices" /\ selectedStatus # "" /\ Settled) =>
    \A i \in 1..Len(filteredDevices) :
      filteredDevices[i].status = selectedStatus

====
